---- MODULE Spec2Model ----
(***************************************************************************)
(* Booking slot accounting of the parking marketplace.                    *)
(*                                                                         *)
(* The hosted database holds two tables, parking_spots and bookings.      *)
(* Pages keep React state that is a snapshot of rows read earlier          *)
(* (BookingPage.spot, QRScanner.bookingDetails, AdminBookingsPage.bookings)*)
(* and every handler is one step: it reads its own page state, makes its  *)
(* database calls and updates its page state.  Rows are identified by      *)
(* their position in the table (gen_random_uuid() is modelled as "the     *)
(* next unused identifier").  Instants are small naturals.                *)
(***************************************************************************)
EXTENDS Integers, Sequences, FiniteSets, TLC

\* ------------------------------------------------------------------ bounds
MaxSpots == 2
MaxSlots == 1
MaxBookings == 2
MaxTime == 1

Clients == {"c1", "c2"}
\* a booking starts at an instant of the horizon and ends at most one
\* instant after it; Times are all the instants a range can touch
StartTimes == 0..MaxTime
EndTimes == 0..(MaxTime + 1)
Times == StartTimes \cup EndTimes
SpotIds == 1..MaxSpots
BookingIds == 1..MaxBookings

\* the four values of the status CHECK constraint on public.bookings
Statuses == {"pending", "active", "completed", "cancelled"}
Terminal == {"completed", "cancelled"}
NonTerminal == {"pending", "active"}

\* "no value" for an optional end_time / a null row reference
\* the PINs handleBooking draws from: Math.floor(1000 + Math.random() * 9000)
\* starts at 1000; two of the 9000 values are kept
MinPin == 1000
Pins == {MinPin, MinPin + 1}

\* parking_spots.price_type
PriceTypes == {"hour", "day", "month"}

NoTime == -1
NoId == 0
NoUser == "null"
UserTypes == {"customer", "owner"}

\* the text of an <input type="number">: an optional minus sign and
\* digits; the empty text stands for an empty or unparsable field
NumberTexts ==
  { t \in [minus : BOOLEAN, digits : {<<>>} \cup { <<d>> : d \in 0..(MaxSlots + 1) }] :
      t.minus => t.digits \in {<<>>, <<1>>} }

\* Number.NaN, the value of parseInt for a text without digits
NaN == -1000

\* parseInt(text): the digits read in base 10, negated after a minus sign
RECURSIVE digitsValue(_)
digitsValue(ds) ==
  IF ds = <<>> THEN 0 ELSE 10 * digitsValue(SubSeq(ds, 1, Len(ds) - 1)) + ds[Len(ds)]

parseInt(text) ==
  IF text.digits = <<>> THEN NaN
  ELSE IF text.minus THEN 0 - digitsValue(text.digits) ELSE digitsValue(text.digits)

VARIABLES
  parking_spots,   \* table public.parking_spots, row id = index
  bookings,        \* table public.bookings, row id = index
  page,            \* per client: the customer page shown and its React state;
                   \* seen is a history field: how many bookings the spot
                   \* had when the page read the counter it shows
  bookingDetails,  \* QRScanner: the validated booking awaiting confirmation
  scanError,       \* QRScanner: the error message shown
  adminBookings,   \* AdminBookingsPage: the bookings list loaded last
  result,          \* what the last mutating handler or call reported:
                   \* the toast of handleBooking, the value of updateBooking
  filteredSpots,   \* HomePage: the ids of the spots listed last
  scanResult,      \* AdminDashboard: the booking shown as "Entry Validated"
  nextAvailableTime, \* the answer of the last call of getNextAvailableTime
  clock,           \* the instant new Date() returns
  auth,            \* AuthProvider: user (its userType, or NoUser for null),
                   \* isLoading, and localStorage's parkpass_auth
  route            \* the router: the location and the element rendered

vars == <<parking_spots, bookings, page, bookingDetails, scanError, adminBookings,
          result, filteredSpots, scanResult, nextAvailableTime, clock,
          auth, route>>

\* ------------------------------------------------------- database layer
\* mapParkingSpotFromDB / the parking_spots row
SpotRow(total, avail, active, priceType, price) ==
  [totalSlots |-> total, availableSlots |-> avail, isActive |-> active,
   priceType |-> priceType, price |-> price]

\* mapBookingFromDB / the bookings row
BookingRow(spotId, st, en, status, pin, totalCost) ==
  [spotId |-> spotId, startTime |-> st, endTime |-> en, status |-> status, pin |-> pin,
   totalCost |-> totalCost]

\* row level security of parking_spots for a customer, who owns no spot:
\* policy "Anyone can view active parking spots", USING (is_active = true)
visible(rows, id) == id \in 1..Len(rows) /\ rows[id].isActive

\* getParkingSpotById called by a customer: the row, or NoId (undefined)
\* when .single() finds no row the customer may see
getParkingSpotById(rows, id) ==
  IF visible(rows, id) THEN id ELSE NoId

\* addParkingSpot: available_slots starts equal to total_slots; a NaN is
\* sent as null and refused by NOT NULL (the insert error is thrown)
addParkingSpot(rows, total, priceType, price) ==
  IF total = NaN THEN rows ELSE Append(rows, SpotRow(total, total, TRUE, priceType, price))

\* updateParkingSpot: the fields present in updates (!== undefined) are
\* written; a missing row changes nothing
updateParkingSpot(rows, id, updates) ==
  IF id \in 1..Len(rows)
    THEN [rows EXCEPT ![id] =
            [f \in DOMAIN rows[id] |->
               IF f \in DOMAIN updates THEN updates[f] ELSE rows[id][f]]]
    ELSE rows

\* getBookingByPin: .eq('pin', pin).single() is an error unless exactly one
\* row matches, and an error is answered with null
getBookingByPin(rows, pin) ==
  LET m == { i \in 1..Len(rows) : rows[i].pin = pin }
  IN IF Cardinality(m) = 1 THEN CHOOSE i \in m : TRUE ELSE NoId

\* createBooking storing the row as already checked in
createBooking_StatusActive(rows, spotRows, row) ==
  IF row.spotId \in 1..Len(spotRows) /\ row.status \in Statuses
    THEN [error |-> FALSE, rows |-> Append(rows, [row EXCEPT !.status = "active"])]
    ELSE [error |-> TRUE, rows |-> rows]

\* createBooking: insert of one row.  The insert is refused (error thrown)
\* when spot_id references no row or status breaks the CHECK constraint.
createBooking(rows, spotRows, row) ==
  IF row.spotId \in 1..Len(spotRows) /\ row.status \in Statuses
    THEN [error |-> FALSE, rows |-> Append(rows, row)]
    ELSE [error |-> TRUE, rows |-> rows]

\* getParkingSpots without .eq('is_active', true)
getParkingSpots_NoFilter(rows) == 1..Len(rows)

\* getParkingSpots: SELECT * ... WHERE is_active = true
getParkingSpots(rows) == { i \in 1..Len(rows) : rows[i].isActive }

\* searchParkingSpots(query, filters): the active rows that match; matches
\* is the set of rows whose name, address, price and amenities satisfy the
\* query and the filters
searchParkingSpots(rows, matches) ==
  { i \in 1..Len(rows) : rows[i].isActive /\ i \in matches }

\* updateBooking with "if (updates.status)" lost: the status is never written
updateBooking_NoStatus(rows, id, updates) ==
  LET hasEnd == updates.endTime # NoTime
      found == id \in 1..Len(rows)
      checkOk == updates.status # "" => updates.status \in Statuses
      newRow == [rows[id] EXCEPT !.endTime = IF hasEnd THEN updates.endTime ELSE @]
  IN IF found /\ checkOk
       THEN [ret |-> "booking", rows |-> [rows EXCEPT ![id] = newRow]]
       ELSE [ret |-> "undefined", rows |-> rows]

\* updateBooking as two statements, end_time first: a status refused by the
\* CHECK constraint leaves the new end_time behind
updateBooking_PartialWrite(rows, id, updates) ==
  LET hasStatus == updates.status # ""
      hasEnd == updates.endTime # NoTime
      found == id \in 1..Len(rows)
      checkOk == hasStatus => updates.status \in Statuses
      endRow == [rows[id] EXCEPT !.endTime = IF hasEnd THEN updates.endTime ELSE @]
      newRow == [endRow EXCEPT !.status = IF hasStatus THEN updates.status ELSE @]
  IN IF ~found THEN [ret |-> "undefined", rows |-> rows]
     ELSE IF checkOk
       THEN [ret |-> "booking", rows |-> [rows EXCEPT ![id] = newRow]]
       ELSE [ret |-> "undefined", rows |-> [rows EXCEPT ![id] = endRow]]

\* updateBooking without .eq('id', id): every row is updated
updateBooking_AllRows(rows, id, updates) ==
  LET hasStatus == updates.status # ""
      hasEnd == updates.endTime # NoTime
      found == id \in 1..Len(rows)
      checkOk == hasStatus => updates.status \in Statuses
      newRow(i) == [rows[i] EXCEPT
                      !.status = IF hasStatus THEN updates.status ELSE @,
                      !.endTime = IF hasEnd THEN updates.endTime ELSE @]
  IN IF found /\ checkOk
       THEN [ret |-> "booking", rows |-> [i \in 1..Len(rows) |-> newRow(i)]]
       ELSE [ret |-> "undefined", rows |-> rows]

\* updateBooking: builds dbUpdates from the truthy fields of updates and
\* runs UPDATE ... WHERE id = id; .single() reports an error when no row
\* matched, the statement fails as a whole when status breaks the CHECK.
\* An error is answered with undefined, never thrown.
updateBooking(rows, id, updates) ==
  LET hasStatus == updates.status # ""
      hasEnd == updates.endTime # NoTime
      found == id \in 1..Len(rows)
      checkOk == hasStatus => updates.status \in Statuses
      newRow == [rows[id] EXCEPT
                   !.status = IF hasStatus THEN updates.status ELSE @,
                   !.endTime = IF hasEnd THEN updates.endTime ELSE @]
  IN IF found /\ checkOk
       THEN [ret |-> "booking", rows |-> [rows EXCEPT ![id] = newRow]]
       ELSE [ret |-> "undefined", rows |-> rows]

\* updateBooking when the request itself fails (network, permission):
\* "if (error) return undefined", nothing is written
requestFailed(rows) == [ret |-> "undefined", rows |-> rows]

\* updateBookingStatus(id, status) = updateBooking(id, { status })
updateBookingStatus(rows, id, status) ==
  updateBooking(rows, id, [status |-> status, endTime |-> NoTime])

\* ------------------------------------------------------------ page state
HomePage == [pc |-> "home", id |-> NoId, availableSlots |-> 0, seen |-> 0]

\* the bookings rows of one spot (getBookingsBySpotId), as row ids
getBookingsBySpotId(rows, s) == { i \in 1..Len(rows) : rows[i].spotId = s }

\* AdminBookingsPage.loadData: the bookings of every spot of the owner
\* (one owner owns all spots); only the status of a row is read later
loadData(rows) == [i \in 1..Len(rows) |-> rows[i].status]

\* getNextAvailableTime: the smallest end_time among the spot's bookings
\* with status 'active' (ORDER BY end_time LIMIT 1), or now (new Date())
\* when there is none
getNextAvailableTime(rows, s, now) ==
  LET ends == { rows[i].endTime : i \in { j \in getBookingsBySpotId(rows, s) :
                                            rows[j].status = "active" } }
  IN IF ends = {} THEN now ELSE CHOOSE e \in ends : \A f \in ends : e <= f

\* ---------------------------------------------------------------- router
\* what a route renders: the spinner, a <Navigate to replace />, a page,
\* or nothing when no route matches
Loading == [kind |-> "loading", to |-> ""]
Navigate(to) == [kind |-> "navigate", to |-> to]
Element(name) == [kind |-> "page", to |-> name]
NoMatch == [kind |-> "none", to |-> ""]

\* ProtectedRoute without the branch on requireOwner
ProtectedRoute_NoOwnerBranch(children, requireOwner, a) ==
  IF a.isLoading THEN Loading
  ELSE IF a.user = NoUser THEN Navigate("/login")
  ELSE children

\* ProtectedRoute({ children, requireOwner }) with useAuth() = a
ProtectedRoute(children, requireOwner, a) ==
  IF a.isLoading THEN Loading
  ELSE IF a.user = NoUser THEN Navigate("/login")
  ELSE IF requireOwner /\ a.user # "owner" THEN Navigate("/")
  ELSE children

\* the owner-only routes and the customer routes under /app, each with the
\* page it shows
OwnerRoutes ==
  [path \in {"/app/admin", "/app/admin/add-spot", "/app/admin/availability",
              "/app/admin/bookings"} |->
     CASE path = "/app/admin" -> "AdminDashboard"
       [] path = "/app/admin/add-spot" -> "AddParkingSpot"
       [] path = "/app/admin/availability" -> "ManageAvailability"
       [] path = "/app/admin/bookings" -> "AdminBookingsPage"]
CustomerRoutes ==
  [path \in {"/app/book", "/app/bookings"} |->
     CASE path = "/app/book" -> "BookingPage"
       [] path = "/app/bookings" -> "BookingsPage"]
\* the locations links and bookmarks lead to; /admin, where the login
\* route sends an owner, is matched by no route
Paths == {"/", "/login"} \cup DOMAIN OwnerRoutes \cup DOMAIN CustomerRoutes

\* AppContent: the element shown at a location with useAuth() = a
AppContent(path, a) ==
  IF a.isLoading THEN Loading
  ELSE IF path = "/" THEN Element("Index")
  ELSE IF path = "/login"
    THEN IF a.user # NoUser
           THEN Navigate(IF a.user = "owner" THEN "/admin" ELSE "/")
           ELSE Element("LoginPage")
  ELSE IF path \in DOMAIN CustomerRoutes
    THEN ProtectedRoute(Element(CustomerRoutes[path]), FALSE, a)
  ELSE IF path \in DOMAIN OwnerRoutes
    THEN ProtectedRoute(ProtectedRoute(Element(OwnerRoutes[path]), TRUE, a), FALSE, a)
  ELSE NoMatch

Init ==
  /\ parking_spots = <<>>
  /\ bookings = <<>>
  /\ page = [c \in Clients |-> HomePage]
  /\ bookingDetails = [id |-> NoId, status |-> ""]
  /\ scanError = ""
  /\ adminBookings = <<>>
  /\ result = "none"
  /\ filteredSpots = {}
  /\ scanResult = NoId
  /\ nextAvailableTime = NoTime
  /\ clock = 0
  /\ auth = [user |-> NoUser, isLoading |-> TRUE, storedAuth |-> NoUser]
  /\ route = [path |-> "/", element |-> AppContent("/", [user |-> NoUser, isLoading |-> TRUE])]

\* ------------------------------------------------------------ owner side
\* AddParkingSpot.handleSubmit with the parsed "Total Slots", the price
\* type selected and the parsed price
AddParkingSpotWithPrice(total, priceType, price) ==
  /\ Len(parking_spots) < MaxSpots
  /\ parking_spots' = addParkingSpot(parking_spots, total, priceType, price)
  /\ UNCHANGED <<bookings, page, bookingDetails, scanError, adminBookings, result>>
  /\ UNCHANGED <<clock, auth, route, filteredSpots, scanResult, nextAvailableTime>>

\* handleSubmit with the price type left at 'hour' and a price of 1
AddParkingSpot(total) == AddParkingSpotWithPrice(total, "hour", 1)

\* AddParkingSpot form submitted with the typed text of "Total Slots":
\* the field is required, so an empty field blocks the submission
HandleSubmit(text) ==
  /\ text.digits # <<>>
  /\ AddParkingSpot(parseInt(text))

\* ManageAvailability: onChange of the "Available Slots" field,
\* setAvailableSlots(parseInt(e.target.value) || 0)
setAvailableSlots(text) ==
  LET n == parseInt(text) IN IF n = NaN \/ n = 0 THEN 0 ELSE n

\* ManageAvailability.handleSaveAvailability: writes the typed number
HandleSaveAvailability(s, avail) ==
  /\ s \in 1..Len(parking_spots)
  /\ parking_spots' = updateParkingSpot(parking_spots, s, [availableSlots |-> avail])
  /\ UNCHANGED <<bookings, page, bookingDetails, scanError, adminBookings, result>>
  /\ UNCHANGED <<clock, auth, route, filteredSpots, scanResult, nextAvailableTime>>

\* database.updateParkingSpot(id, { isActive }) called for the owner: the
\* spot is deactivated or activated again
UpdateParkingSpot(s, updates) ==
  /\ s \in 1..Len(parking_spots)
  /\ parking_spots' = updateParkingSpot(parking_spots, s, updates)
  /\ UNCHANGED <<bookings, page, bookingDetails, scanError, adminBookings, result>>
  /\ UNCHANGED <<clock, auth, route, filteredSpots, scanResult, nextAvailableTime>>

\* --------------------------------------------------------- customer side
\* HomePage.loadParkingSpots: setFilteredSpots(await database.getParkingSpots())
LoadParkingSpots ==
  /\ filteredSpots' = getParkingSpots(parking_spots)
  /\ UNCHANGED <<parking_spots, bookings, page, bookingDetails, scanError, adminBookings, result>>
  /\ UNCHANGED <<clock, auth, route, scanResult, nextAvailableTime>>

\* HomePage.handleSearch / handleFilter
HandleSearch(matches) ==
  /\ filteredSpots' = searchParkingSpots(parking_spots, matches)
  /\ UNCHANGED <<parking_spots, bookings, page, bookingDetails, scanError, adminBookings, result>>
  /\ UNCHANGED <<clock, auth, route, scanResult, nextAvailableTime>>

\* ParkingSpotDetail.loadSpotDetails: shows the spot's counter as read now
LoadSpotDetails(c, s) ==
  /\ getParkingSpotById(parking_spots, s) # NoId
  /\ page' = [page EXCEPT ![c] =
       [pc |-> "detail", id |-> s,
        availableSlots |-> parking_spots[s].availableSlots,
        seen |-> Cardinality(getBookingsBySpotId(bookings, s))]]
  /\ UNCHANGED <<parking_spots, bookings, bookingDetails, scanError, adminBookings, result>>
  /\ UNCHANGED <<clock, auth, route, filteredSpots, scanResult, nextAvailableTime>>

\* BookingPage.loadData: spot = getParkingSpotById(id) || null
BookingLoadData(c, s, seen) ==
  page' = [page EXCEPT ![c] =
     [pc |-> "book", id |-> getParkingSpotById(parking_spots, s),
      availableSlots |-> 0, seen |-> seen]]

\* "Book Now" on the detail page: disabled when the shown counter is 0
BookNow(c) ==
  /\ page[c].pc = "detail"
  /\ page[c].availableSlots # 0
  /\ BookingLoadData(c, page[c].id, page[c].seen)
  /\ UNCHANGED <<parking_spots, bookings, bookingDetails, scanError, adminBookings, result>>
  /\ UNCHANGED <<clock, auth, route, filteredSpots, scanResult, nextAvailableTime>>

\* the route /book/:id opened directly
OpenBookingPage(c, s) ==
  /\ page[c].pc = "home"
  /\ BookingLoadData(c, s, Cardinality(getBookingsBySpotId(bookings, s)))
  /\ UNCHANGED <<parking_spots, bookings, bookingDetails, scanError, adminBookings, result>>
  /\ UNCHANGED <<clock, auth, route, filteredSpots, scanResult, nextAvailableTime>>

\* Math.ceil(a / b) for whole a and positive b
ceil(a, b) == -((-a) \div b)

\* BookingPage.calculateCost with every field filled in; instants are
\* whole hours, so diffInHours is en - st
calculateCost(spot, st, en) ==
  LET diffInHours == en - st
  IN IF spot.priceType = "hour" THEN ceil(diffInHours, 1) * spot.price
     ELSE IF spot.priceType = "day" THEN ceil(diffInHours, 24) * spot.price
     ELSE IF spot.priceType = "month" THEN ceil(diffInHours, 24 * 30) * spot.price
     ELSE 0

\* BookingPage.handleBooking with the form as filled in; a confirmed
\* booking navigates away from the page, a refused one stays on it.  pin is
\* the number Math.floor(1000 + Math.random() * 9000) comes to
HandleBookingWithPin(c, filled, st, en, pin) ==
  /\ page[c].pc = "book"
  /\ Len(bookings) < MaxBookings
  /\ IF page[c].id = NoId \/ ~filled
       THEN /\ result' = "Missing Information"
            /\ UNCHANGED <<bookings, page>>
       ELSE LET r == createBooking(bookings, parking_spots,
                                   BookingRow(page[c].id, st, en, "pending", pin,
                                              calculateCost(parking_spots[page[c].id], st, en)))
            IN /\ bookings' = r.rows
               /\ result' = IF r.error THEN "Booking Failed" ELSE "Booking Confirmed!"
               /\ page' = IF r.error THEN page ELSE [page EXCEPT ![c] = HomePage]
  /\ UNCHANGED <<parking_spots, bookingDetails, scanError, adminBookings>>
  /\ UNCHANGED <<clock, auth, route, filteredSpots, scanResult, nextAvailableTime>>

\* handleBooking when the random number comes to the smallest PIN
HandleBooking(c, filled, st, en) == HandleBookingWithPin(c, filled, st, en, MinPin)

\* ------------------------------------------------------- database callers
\* database.updateBooking(id, updates) called with a status and/or an end
\* time: updateBookingStatus(id, 'cancelled') is the cancellation, an
\* update of endTime is the extension
UpdateBooking(id, updates) ==
  /\ updates.status # "" \/ updates.endTime # NoTime
  /\ LET r == updateBooking(bookings, id, updates)
     IN /\ bookings' = r.rows
        /\ result' = r.ret
  /\ UNCHANGED <<parking_spots, page, bookingDetails, scanError, adminBookings>>
  /\ UNCHANGED <<clock, auth, route, filteredSpots, scanResult, nextAvailableTime>>

\* database.getNextAvailableTime(spotId) called at instant now, with a
\* side effect: active bookings of the spot that have ended are completed
GetNextAvailableTime_Sweeps(s, now) ==
  /\ nextAvailableTime' = getNextAvailableTime(bookings, s, now)
  /\ bookings' = [i \in 1..Len(bookings) |->
       IF bookings[i].spotId = s /\ bookings[i].status = "active" /\ bookings[i].endTime <= now
         THEN [bookings[i] EXCEPT !.status = "completed"] ELSE bookings[i]]
  /\ UNCHANGED <<parking_spots, page, bookingDetails, scanError, adminBookings, result>>
  /\ UNCHANGED <<clock, auth, route, filteredSpots, scanResult>>

\* database.getNextAvailableTime(spotId) called at instant now
GetNextAvailableTime(s, now) ==
  /\ nextAvailableTime' = getNextAvailableTime(bookings, s, now)
  /\ UNCHANGED <<parking_spots, bookings, page, bookingDetails, scanError, adminBookings, result>>
  /\ UNCHANGED <<clock, auth, route, filteredSpots, scanResult>>

\* ------------------------------------------------------------- QRScanner
\* validateAndShowBooking(code): code is the QR code of booking id, or a
\* code no booking carries (id beyond the table)
ValidateAndShowBooking(id) ==
  /\ LET found == id \in 1..Len(bookings)
     IN IF ~found
          THEN /\ scanError' = "Invalid code. Please check and try again."
               /\ UNCHANGED bookingDetails
          ELSE IF bookings[id].status \in {"completed", "cancelled"}
            THEN /\ scanError' = "This booking has already been processed."
                 /\ UNCHANGED bookingDetails
            ELSE /\ scanError' = ""
                 /\ bookingDetails' = [id |-> id, status |-> bookings[id].status]
  /\ UNCHANGED <<parking_spots, bookings, page, adminBookings, result>>
  /\ UNCHANGED <<clock, auth, route, filteredSpots, scanResult, nextAvailableTime>>

\* handlePinSubmit: a PIN of four digits is looked up with getBookingByPin
\* and validated like a scanned code; null is the code no booking carries
HandlePinSubmit(pin) == ValidateAndShowBooking(getBookingByPin(bookings, pin))

\* confirmEntry: the new status is chosen from the status validated
\* earlier; updateBookingStatus never throws, so onScan (AdminDashboard.
\* handleQRScan: "Entry Validated") always follows.  dbError: the hosted
\* database answers the request with an error
ConfirmEntryWith(dbError) ==
  /\ bookingDetails.id # NoId
  /\ LET newStatus == IF bookingDetails.status = "pending" THEN "active" ELSE "completed"
         r == IF dbError
                THEN requestFailed(bookings)
                ELSE updateBookingStatus(bookings, bookingDetails.id, newStatus)
     IN /\ bookings' = r.rows
        /\ result' = r.ret
  /\ scanResult' = bookingDetails.id
  /\ bookingDetails' = [id |-> NoId, status |-> ""]
  /\ UNCHANGED <<parking_spots, page, scanError, adminBookings>>
  /\ UNCHANGED <<clock, auth, route, filteredSpots, nextAvailableTime>>

\* confirmEntry with the database reachable
ConfirmEntry == ConfirmEntryWith(FALSE)

\* ----------------------------------------------------- AdminBookingsPage
AdminLoadData ==
  /\ adminBookings' = loadData(bookings)
  /\ UNCHANGED <<parking_spots, bookings, page, bookingDetails, scanError, result>>
  /\ UNCHANGED <<clock, auth, route, filteredSpots, scanResult, nextAvailableTime>>

\* handleStatusUpdate from the buttons of a row listed as pending, followed
\* by the refresh of the list
HandleStatusUpdate(id, newStatus) ==
  /\ id \in 1..Len(adminBookings)
  /\ adminBookings[id] = "pending"
  /\ LET r == updateBooking(bookings, id, [status |-> newStatus, endTime |-> NoTime])
     IN /\ bookings' = r.rows
        /\ result' = r.ret
        /\ adminBookings' = loadData(r.rows)
  /\ UNCHANGED <<parking_spots, page, bookingDetails, scanError>>
  /\ UNCHANGED <<clock, auth, route, filteredSpots, scanResult, nextAvailableTime>>

\* --------------------------------------------------------- specifications
\* the inputs of database.updateBooking: a cancellation (status alone), an
\* extension (endTime alone), or an end time together with a status outside
\* the CHECK constraint
UpdateInputs ==
  { u \in [status : {"", "cancelled", "expired"}, endTime : EndTimes \cup {NoTime}] :
      \/ u.status = "cancelled" /\ u.endTime = NoTime
      \/ u.status = "" /\ u.endTime # NoTime
      \/ u.status = "expired" /\ u.endTime # NoTime }

Owner ==
  \/ \E total \in 1..MaxSlots : AddParkingSpot(total)
  \/ \E s \in SpotIds, avail \in 0..MaxSlots : HandleSaveAvailability(s, avail)

\* the flow through the detail page and its "Book Now" button
Checked(C) ==
  \/ \E c \in C, s \in SpotIds : LoadSpotDetails(c, s)
  \/ \E c \in C : BookNow(c)
  \/ \E c \in C, filled \in BOOLEAN, st \in StartTimes, en \in EndTimes :
       HandleBooking(c, filled, st, en)

\* the ledger of one spot: one customer on the booking page, and the
\* database calls that cancel and extend
Next ==
  \/ \E total \in 1..MaxSlots : parking_spots = <<>> /\ AddParkingSpot(total)
  \/ \E s \in SpotIds : OpenBookingPage("c1", s)
  \/ HandleBooking("c1", FALSE, 0, 0)
  \/ \E st \in StartTimes, en \in EndTimes : HandleBooking("c1", TRUE, st, en)
  \/ \E id \in BookingIds, u \in UpdateInputs : UpdateBooking(id, u)

Spec == Init /\ [][Next]_vars

\* the ledger of one spot with cancellations and refused updates only: no
\* booking is extended or shortened
NextLedger ==
  \/ \E total \in 1..MaxSlots : parking_spots = <<>> /\ AddParkingSpot(total)
  \/ \E s \in SpotIds : OpenBookingPage("c1", s)
  \/ HandleBooking("c1", FALSE, 0, 0)
  \/ \E st \in StartTimes, en \in EndTimes : HandleBooking("c1", TRUE, st, en)
  \/ \E id \in BookingIds, u \in { v \in UpdateInputs : v.status # "" } : UpdateBooking(id, u)

SpecLedger == Init /\ [][NextLedger]_vars

\* two customers booking concurrently through the detail page while the
\* owner edits the counter
NextRace ==
  \/ Owner
  \/ Checked(Clients)

SpecRace == Init /\ [][NextRace]_vars

\* one customer, the gate scanner and the owner's booking list
NextCheckIn ==
  \/ \E total \in 1..MaxSlots : AddParkingSpot(total)
  \/ \E s \in SpotIds : OpenBookingPage("c1", s)
  \/ \E st \in StartTimes, en \in EndTimes : HandleBooking("c1", TRUE, st, en)
  \/ \E id \in BookingIds : ValidateAndShowBooking(id)
  \/ ConfirmEntry
  \/ AdminLoadData
  \/ \E id \in BookingIds, s \in {"active", "cancelled"} : HandleStatusUpdate(id, s)

SpecCheckIn == Init /\ [][NextCheckIn]_vars

\* the owner's spots being deactivated and activated again while a
\* customer lists, searches and books them for one fixed range and
\* bookings are cancelled
NextSpots ==
  \/ AddParkingSpot(1)
  \/ \E s \in SpotIds, b \in BOOLEAN : UpdateParkingSpot(s, [isActive |-> b])
  \/ LoadParkingSpots
  \/ \E matches \in SUBSET SpotIds : HandleSearch(matches)
  \/ \E s \in SpotIds : OpenBookingPage("c1", s)
  \/ HandleBooking("c1", TRUE, 0, 1)
  \/ \E id \in BookingIds :
       UpdateBooking(id, [status |-> "cancelled", endTime |-> NoTime])

SpecSpots == Init /\ [][NextSpots]_vars

\* the gate scanner while requests to the database may fail
NextErrors ==
  \/ AddParkingSpot(1)
  \/ \E s \in SpotIds : OpenBookingPage("c1", s)
  \/ HandleBooking("c1", TRUE, 0, 1)
  \/ \E id \in BookingIds : ValidateAndShowBooking(id)
  \/ \E dbError \in BOOLEAN : ConfirmEntryWith(dbError)

SpecErrors == Init /\ [][NextErrors]_vars

\* the owner's forms as typed: a spot is added, its counter is saved, its
\* capacity is edited, while a customer books [0, 1)
NextOwner ==
  \/ \E text \in NumberTexts : parking_spots = <<>> /\ HandleSubmit(text)
  \/ \E s \in SpotIds, text \in NumberTexts :
       HandleSaveAvailability(s, setAvailableSlots(text))
  \/ \E s \in SpotIds, total \in 0..(MaxSlots + 1) :
       UpdateParkingSpot(s, [totalSlots |-> total])
  \/ \E s \in SpotIds : OpenBookingPage("c1", s)
  \/ HandleBooking("c1", TRUE, 0, 1)

SpecOwner == Init /\ [][NextOwner]_vars

\* the read paths of one spot interleaved with bookings of [0, 1) and
\* check-ins
NextReads ==
  \/ parking_spots = <<>> /\ AddParkingSpot(1)
  \/ \E s \in SpotIds : OpenBookingPage("c1", s)
  \/ HandleBooking("c1", TRUE, 0, 1)
  \/ \E id \in BookingIds : UpdateBooking(id, [status |-> "active", endTime |-> NoTime])
  \/ \E s \in SpotIds, now \in Times : GetNextAvailableTime(s, now)
  \/ \E s \in SpotIds : LoadSpotDetails("c1", s)
  \/ LoadParkingSpots
  \/ AdminLoadData

SpecReads == Init /\ [][NextReads]_vars

\* bookings of several spots of capacity 1: a customer books [0, 1) on any
\* of them, and bookings are extended to the last instant or cancelled
NextIndependent ==
  \/ AddParkingSpot(1)
  \/ \E s \in SpotIds : OpenBookingPage("c1", s)
  \/ HandleBooking("c1", TRUE, 0, 1)
  \/ \E id \in BookingIds :
       \/ UpdateBooking(id, [status |-> "", endTime |-> MaxTime + 1])
       \/ UpdateBooking(id, [status |-> "cancelled", endTime |-> NoTime])

SpecIndependent == Init /\ [][NextIndependent]_vars

\* the instant new Date() returns moves on by one
Tick ==
  /\ clock < MaxTime + 1
  /\ clock' = clock + 1
  /\ UNCHANGED <<parking_spots, bookings, page, bookingDetails, scanError, adminBookings>>
  /\ UNCHANGED <<result, filteredSpots, scanResult, nextAvailableTime, auth, route>>

\* one spot of capacity 1 with bookings of [0, 1) while time passes: the
\* scanner checks bookings in and out, and the next free instant is read
\* at the current instant.  Time passes whatever the users do; no user
\* step is bound to happen.
NextClock ==
  \/ parking_spots = <<>> /\ AddParkingSpot(1)
  \/ \E s \in SpotIds : OpenBookingPage("c1", s)
  \/ HandleBooking("c1", TRUE, 0, 1)
  \/ Tick
  \/ \E s \in SpotIds : GetNextAvailableTime(s, clock)
  \/ \E id \in BookingIds : ValidateAndShowBooking(id)
  \/ ConfirmEntry

SpecClock == Init /\ [][NextClock]_vars /\ WF_vars(Tick)

\* one spot of capacity 1 with bookings of [0, 1), each with the PIN its
\* creation drew; PINs are typed in at the scanner and entries confirmed
NextPin ==
  \/ parking_spots = <<>> /\ AddParkingSpot(1)
  \/ \E s \in SpotIds : OpenBookingPage("c1", s)
  \/ \E pin \in Pins : HandleBookingWithPin("c1", TRUE, 0, 1, pin)
  \/ \E pin \in Pins : HandlePinSubmit(pin)
  \/ ConfirmEntry

SpecPin == Init /\ [][NextPin]_vars

\* one spot of capacity 1 priced by the hour, the day or the month, booked
\* for every range the form accepts
NextCost ==
  \/ \E priceType \in PriceTypes :
       parking_spots = <<>> /\ AddParkingSpotWithPrice(1, priceType, 1)
  \/ \E s \in SpotIds : OpenBookingPage("c1", s)
  \/ \E st \in StartTimes, en \in EndTimes : HandleBooking("c1", TRUE, st, en)

SpecCost == Init /\ [][NextCost]_vars

\* --------------------------------------------------- session and routing
\* a change of the auth state renders the current location again
Rendered(a) ==
  /\ auth' = a
  /\ route' = [route EXCEPT !.element = AppContent(route.path, a)]
  /\ UNCHANGED <<parking_spots, bookings, page, bookingDetails, scanError, adminBookings>>
  /\ UNCHANGED <<result, filteredSpots, scanResult, nextAvailableTime, clock>>

\* AuthProvider's effect on app load: the stored user, if any, is set and
\* isLoading ends
LoadStoredAuth ==
  /\ auth.isLoading
  /\ Rendered([auth EXCEPT !.user = auth.storedAuth, !.isLoading = FALSE])

\* the browser loads the app at a location: the provider's state starts
\* over, localStorage stays
LoadApp(path) ==
  /\ auth' = [auth EXCEPT !.user = NoUser, !.isLoading = TRUE]
  /\ route' = [path |-> path, element |-> AppContent(path, auth')]
  /\ UNCHANGED <<parking_spots, bookings, page, bookingDetails, scanError, adminBookings>>
  /\ UNCHANGED <<result, filteredSpots, scanResult, nextAvailableTime, clock>>

\* AuthProvider.login from the login page, for an account of the given
\* type; the page then navigates to /
Login(userType) ==
  /\ route.element = Element("LoginPage")
  /\ auth' = [auth EXCEPT !.user = userType, !.storedAuth = userType]
  /\ route' = [path |-> "/", element |-> AppContent("/", auth')]
  /\ UNCHANGED <<parking_spots, bookings, page, bookingDetails, scanError, adminBookings>>
  /\ UNCHANGED <<result, filteredSpots, scanResult, nextAvailableTime, clock>>

\* Navbar.handleLogout: logout(), then navigate('/login'); the navbar is
\* shown inside the protected routes
Logout ==
  /\ route.path \in DOMAIN OwnerRoutes \cup DOMAIN CustomerRoutes
  /\ route.element.kind = "page"
  /\ auth' = [auth EXCEPT !.user = NoUser, !.storedAuth = NoUser]
  /\ route' = [path |-> "/login", element |-> AppContent("/login", auth')]
  /\ UNCHANGED <<parking_spots, bookings, page, bookingDetails, scanError, adminBookings>>
  /\ UNCHANGED <<result, filteredSpots, scanResult, nextAvailableTime, clock>>

\* a link or a typed address changes the location
GoTo(path) ==
  /\ route' = [path |-> path, element |-> AppContent(path, auth)]
  /\ UNCHANGED <<parking_spots, bookings, page, bookingDetails, scanError, adminBookings>>
  /\ UNCHANGED <<result, filteredSpots, scanResult, nextAvailableTime, clock, auth>>

\* a rendered <Navigate to replace /> replaces the location
FollowNavigate ==
  /\ route.element.kind = "navigate"
  /\ GoTo(route.element.to)

\* sessions of customers and owners moving between the locations; a spot
\* is added from the page the add-spot route shows
NextRoutes ==
  \/ LoadStoredAuth
  \/ \E path \in Paths : LoadApp(path)
  \/ \E userType \in UserTypes : Login(userType)
  \/ Logout
  \/ \E path \in Paths : GoTo(path)
  \/ FollowNavigate
  \/ route.element = Element("AddParkingSpot") /\ AddParkingSpot(1)

SpecRoutes == Init /\ [][NextRoutes]_vars

\* ------------------------------------------------------------ occupancy
\* contains(range, instant) for the half-open range [st, en)
contains(st, en, t) == st <= t /\ t < en

\* occupancyAt: the slots held at instant t on spot s; every booking holds
\* one slot (one vehicle per booking)
occupancyAt(rows, s, t) ==
  Cardinality({ i \in getBookingsBySpotId(rows, s) :
                  /\ rows[i].status \in NonTerminal
                  /\ contains(rows[i].startTime, rows[i].endTime, t) })

Max(S) == CHOOSE x \in S : \A y \in S : y <= x

\* maxOccupancyOverRange: the peak of occupancyAt over the instants of
\* [st, en); instants are integers, so the peak is taken at one of them
maxOccupancyOverRange(rows, s, st, en) ==
  Max({0} \cup { occupancyAt(rows, s, t) : t \in { u \in Times : contains(st, en, u) } })

\* the table without row id (the other reservations of an extension)
Others(rows, id) ==
  [i \in 1..Len(rows) |-> IF i = id THEN [rows[i] EXCEPT !.status = "cancelled"] ELSE rows[i]]

\* ManageAvailability.getActiveBookings over the bookings just loaded,
\* with now = new Date()
getActiveBookings(rows, now) ==
  { i \in 1..Len(rows) :
      /\ rows[i].status = "active"
      /\ rows[i].startTime <= now
      /\ rows[i].endTime >= now }

\* a step of client c that stored a new booking
Admitted(c) ==
  /\ page[c].pc = "book"
  /\ Len(bookings') = Len(bookings) + 1
  /\ page'[c].pc = "home"

\* ------------------------------------------------------------------ C1
\* C1: for every spot and every instant t, the slots held by pending or
\* active bookings whose range [start, end) contains t are at most the
\* spot's totalSlots.
C1_CapacityInvariant ==
  \A s \in 1..Len(parking_spots) : \A t \in Times :
    occupancyAt(bookings, s, t) <= parking_spots[s].totalSlots

\* ------------------------------------------------------------------ C2
\* C2: a request whose availability check was followed by another
\* admission on the same spot before its own insert is not admitted when
\* it no longer fits: two concurrent requests of which one fits are never
\* both admitted.
C2_AtomicAdmission ==
  [][ \A c \in Clients :
        (Admitted(c) /\ page[c].seen # Cardinality(getBookingsBySpotId(bookings, page[c].id)))
        => LET b == bookings'[Len(bookings')]
           IN maxOccupancyOverRange(bookings, b.spotId, b.startTime, b.endTime) + 1
                <= parking_spots[b.spotId].totalSlots ]_vars

\* ------------------------------------------------------------------ C3
\* C3: a request with a valid range on an existing spot is refused exactly
\* when maxOccupancyOverRange + 1 exceeds totalSlots, and admitted
\* otherwise.
C3_AdmissionRule ==
  [][ \A c \in Clients, st \in StartTimes, en \in EndTimes :
        (HandleBooking(c, TRUE, st, en) /\ page[c].id # NoId /\ st < en)
        => LET s == page[c].id
               exceeds == maxOccupancyOverRange(bookings, s, st, en) + 1
                            > parking_spots[s].totalSlots
           IN IF exceeds
                THEN bookings' = bookings /\ result' = "Booking Failed"
                ELSE Admitted(c) /\ result' = "Booking Confirmed!" ]_vars

\* ------------------------------------------------------------------ C4
\* C4: ranges are half-open: on a spot of capacity 1 a request [b, c) that
\* only touches an existing booking [a, b) is admitted, and a booking whose
\* end equals the current instant is not counted as occupying the spot.
C4_HalfOpenBoundary ==
  [][ /\ \A c \in Clients, st \in StartTimes, en \in EndTimes :
           ( /\ HandleBooking(c, TRUE, st, en) /\ page[c].id # NoId /\ st < en
             /\ parking_spots[page[c].id].totalSlots = 1
             /\ maxOccupancyOverRange(bookings, page[c].id, st, en) = 0 )
           => Admitted(c)
      /\ \A now \in Times : \A i \in getActiveBookings(bookings', now) :
           bookings'[i].startTime < bookings'[i].endTime
           => contains(bookings'[i].startTime, bookings'[i].endTime, now) ]_vars

\* ------------------------------------------------------------------ C5
\* C5: a successful cancellation leaves the booking cancelled and outside
\* the occupancy of every instant, and a request that fits once cancelled
\* bookings are left out is admitted.
C5_CancellationFreesCapacity ==
  [][ /\ \A id \in BookingIds :
           ( /\ result' = "booking"
             /\ UpdateBooking(id, [status |-> "cancelled", endTime |-> NoTime]) )
           => /\ bookings'[id].status = "cancelled"
              /\ \A t \in Times :
                   occupancyAt(bookings', bookings[id].spotId, t)
                     = occupancyAt(Others(bookings, id), bookings[id].spotId, t)
      /\ \A c \in Clients, st \in StartTimes, en \in EndTimes :
           ( /\ page[c].pc = "book" /\ page[c].id # NoId
             /\ result' \in {"Booking Failed", "Booking Confirmed!"}
             /\ HandleBooking(c, TRUE, st, en)
             /\ maxOccupancyOverRange(bookings, page[c].id, st, en) + 1
                  <= parking_spots[page[c].id].totalSlots )
           => Admitted(c) /\ result' = "Booking Confirmed!" ]_vars

\* a cancelled booking and a later pending one overlap on a spot of
\* capacity 1, and the last call was a successful cancellation
C5_Witness ==
  \E i \in 1..Len(bookings), j \in 1..Len(bookings) :
    /\ i # j
    /\ bookings[i].status = "cancelled" /\ bookings[j].status = "pending"
    /\ bookings[i].spotId = bookings[j].spotId
    /\ parking_spots[bookings[i].spotId].totalSlots = 1
    /\ bookings[i].startTime < bookings[j].endTime
    /\ bookings[j].startTime < bookings[i].endTime
    /\ bookings[j].startTime < bookings[j].endTime
    /\ result = "Booking Confirmed!" /\ i < j

\* ------------------------------------------------------------------ C6
\* C6: an extension to newEnd > end of a pending or active booking succeeds
\* and replaces the end exactly when the other non-terminal bookings of the
\* spot leave a free slot throughout [end, newEnd); otherwise it fails and
\* the booking keeps its end.
C6_ExtensionRespectsCapacity ==
  [][ \A id \in BookingIds, newEnd \in EndTimes :
        ( /\ UpdateBooking(id, [status |-> "", endTime |-> newEnd])
          /\ id \in 1..Len(bookings)
          /\ bookings[id].status \in NonTerminal
          /\ newEnd > bookings[id].endTime )
        => LET b == bookings[id]
               fits == maxOccupancyOverRange(Others(bookings, id), b.spotId,
                                             b.endTime, newEnd) + 1
                         <= parking_spots[b.spotId].totalSlots
           IN IF fits
                THEN bookings' = [bookings EXCEPT ![id].endTime = newEnd]
                     /\ result' = "booking"
                ELSE bookings' = bookings /\ result' = "undefined" ]_vars

\* ------------------------------------------------------------------ C7
\* C7: a request or an extension that is refused leaves the stored
\* bookings exactly as they were.
C7_FailedAdmissionLeavesLedger ==
  [][ result' \in {"Missing Information", "Booking Failed", "undefined"}
      => bookings' = bookings ]_vars

\* an update of a stored booking was refused: every booking id is in use,
\* so the refusal came from the CHECK constraint on status
C7_Witness ==
  /\ result = "undefined"
  /\ Len(bookings) = MaxBookings

\* ------------------------------------------------------------------ C8
\* C8: once a booking is completed or cancelled no later step changes its
\* status or its range.
C8_TerminalImmutable ==
  [][ \A i \in 1..Len(bookings) :
        bookings[i].status \in Terminal => bookings'[i] = bookings[i] ]_vars

\* ------------------------------------------------------------------ C9
\* C9: a cancellation or an extension of a completed or cancelled booking
\* fails and leaves the booking unchanged.
C9_TerminalOperationsRejected ==
  [][ \A id \in BookingIds, u \in UpdateInputs :
        ( /\ UpdateBooking(id, u)
          /\ id \in 1..Len(bookings)
          /\ bookings[id].status \in Terminal
          /\ u.status \in {"", "cancelled"} )
        => result' = "undefined" /\ bookings'[id] = bookings[id] ]_vars

\* ------------------------------------------------------------------ C10
AllowedTransitions ==
  { <<"pending", "active">>, <<"active", "completed">>,
    <<"pending", "cancelled">>, <<"active", "cancelled">> }

\* C10: every status is one of the four, and a status only ever changes
\* pending->active, active->completed, pending->cancelled or
\* active->cancelled.
C10_StateMachine ==
  [][ /\ \A i \in 1..Len(bookings') : bookings'[i].status \in Statuses
      /\ \A i \in 1..Len(bookings) :
           bookings'[i].status # bookings[i].status
           => <<bookings[i].status, bookings'[i].status>> \in AllowedTransitions ]_vars

\* ------------------------------------------------------------------ C11
\* C11: every stored booking has start < end, and a request whose start is
\* not strictly before its end is refused and stores nothing.
C11_RangeValidity ==
  [][ /\ \A i \in 1..Len(bookings') : bookings'[i].startTime < bookings'[i].endTime
      /\ \A c \in Clients, st \in StartTimes, en \in EndTimes :
           ( /\ page[c].pc = "book" /\ page[c].id # NoId /\ st >= en
             /\ HandleBooking(c, TRUE, st, en) )
           => bookings' = bookings /\ result' = "Booking Failed" ]_vars

\* ------------------------------------------------------------------ C12
\* C12: an extension of a booking (of valid range) to newEnd <= its current
\* end fails and leaves the end unchanged, and no step ever decreases the
\* end of such a booking.
C12_ExtensionMustLengthen ==
  [][ /\ \A id \in BookingIds, newEnd \in EndTimes :
           ( /\ id \in 1..Len(bookings)
             /\ bookings[id].startTime < bookings[id].endTime
             /\ newEnd <= bookings[id].endTime
             /\ UpdateBooking(id, [status |-> "", endTime |-> newEnd]) )
           => result' = "undefined" /\ bookings'[id].endTime = bookings[id].endTime
      /\ \A i \in 1..Len(bookings) :
           bookings[i].startTime < bookings[i].endTime
           => bookings'[i].endTime >= bookings[i].endTime ]_vars

\* ------------------------------------------------------------------ C13
\* C13: a request for a spot that is inactive is refused and stores
\* nothing; deactivating or activating a spot changes no booking, and a
\* pending or active booking of an inactive spot can still be cancelled.
C13_InactiveSpotsAdmitNothing ==
  [][ /\ \A c \in Clients, st \in StartTimes, en \in EndTimes :
           ( /\ page[c].pc = "book" /\ page[c].id # NoId
             /\ ~parking_spots[page[c].id].isActive
             /\ HandleBooking(c, TRUE, st, en) )
           => bookings' = bookings /\ result' = "Booking Failed"
      /\ \A s \in SpotIds, b \in BOOLEAN :
           UpdateParkingSpot(s, [isActive |-> b]) => bookings' = bookings
      /\ \A id \in BookingIds :
           ( /\ id \in 1..Len(bookings)
             /\ bookings[id].status \in NonTerminal
             /\ ~parking_spots[bookings[id].spotId].isActive
             /\ UpdateBooking(id, [status |-> "cancelled", endTime |-> NoTime]) )
           => bookings'[id].status = "cancelled" ]_vars

\* ------------------------------------------------------------------ C14
\* what a step leaves alone on spot B: its row, its bookings and so its
\* occupancy at every instant, and the answer to any request for B
SameOnSpot(B) ==
  /\ parking_spots'[B] = parking_spots[B]
  /\ \A i \in 1..Len(bookings) : bookings[i].spotId = B => bookings'[i] = bookings[i]
  /\ \A t \in Times : occupancyAt(bookings', B, t) = occupancyAt(bookings, B, t)
  /\ \A st \in StartTimes, en \in EndTimes :
       createBooking(bookings', parking_spots', BookingRow(B, st, en, "pending", MinPin, 1)).error
         = createBooking(bookings, parking_spots, BookingRow(B, st, en, "pending", MinPin, 1)).error

\* C14: a booking request for spot A, and an extension or a cancellation
\* of a booking of spot A, leave every other spot B as it was: its
\* counter, its occupancy and the outcome of a request for B.
C14_SpotsIndependent ==
  [][ /\ \A c \in Clients, st \in StartTimes, en \in EndTimes :
           ( /\ page[c].pc = "book" /\ page[c].id # NoId
             /\ result' \in {"Booking Failed", "Booking Confirmed!"}
             /\ HandleBooking(c, TRUE, st, en) )
           => \A B \in 1..Len(parking_spots) : B # page[c].id => SameOnSpot(B)
      /\ \A id \in BookingIds :
           ( /\ id \in 1..Len(bookings)
             /\ result' \in {"booking", "undefined"}
             /\ \E u \in UpdateInputs : UpdateBooking(id, u) )
           => \A B \in 1..Len(parking_spots) : B # bookings[id].spotId => SameOnSpot(B) ]_vars

\* bookings on two different spots, one of them extended by the last call
C14_Witness ==
  \E i \in 1..Len(bookings), j \in 1..Len(bookings) :
    /\ bookings[i].spotId # bookings[j].spotId
    /\ bookings[i].endTime = MaxTime + 1
    /\ bookings[j].endTime = 1 /\ bookings[j].status = "pending"
    /\ result = "booking"

\* ------------------------------------------------------------------ C15
\* C15: the available-slot value a page shows for a spot when it loads it
\* equals, for every range, totalSlots minus the peak occupancy of the
\* spot's pending and active bookings over that range.
C15_DisplayedAvailabilityDerived ==
  [][ \A c \in Clients, s \in SpotIds :
        LoadSpotDetails(c, s)
        => \A st \in StartTimes, en \in EndTimes :
             st < en
             => page'[c].availableSlots
                  = parking_spots[s].totalSlots - maxOccupancyOverRange(bookings, s, st, en) ]_vars

\* ------------------------------------------------------------------ C17
\* C17: the scanner shows a booking as "Entry Validated" only when the
\* status update it made was applied: a failed update is reported to the
\* caller and no success is shown for it.
C17_ErrorsNeverSwallowed ==
  [][ \A dbError \in BOOLEAN :
        (ConfirmEntryWith(dbError) /\ scanResult' # NoId)
        => /\ result' = "booking"
           /\ bookings'[scanResult'].status
                = IF bookingDetails.status = "pending" THEN "active" ELSE "completed" ]_vars

\* ------------------------------------------------------------------ C18
\* a slot of spot s is free at instant t
freeAt(rows, spotRows, s, t) == occupancyAt(rows, s, t) + 1 <= spotRows[s].totalSlots

\* C18: the next free instant asked for spot s from instant now is now
\* itself when a slot is free at now, otherwise the earliest later instant
\* at which a slot is free; a slot is free at the instant returned.
C18_NextFreeInstant ==
  [][ \A s \in 1..Len(parking_spots), now \in Times :
        GetNextAvailableTime(s, now)
        => LET at == nextAvailableTime'
           IN /\ freeAt(bookings, parking_spots, s, now) => at = now
              /\ ~freeAt(bookings, parking_spots, s, now)
                   => /\ at > now
                      /\ \A t \in Times : (now < t /\ t < at)
                                           => ~freeAt(bookings, parking_spots, s, t)
              /\ at \in Times => freeAt(bookings, parking_spots, s, at) ]_vars

\* ------------------------------------------------------------------ C19
\* C19: the read paths (getNextAvailableTime, the spot and booking getters
\* behind the detail page, the home page and the owner's booking list)
\* leave every spot and every booking unchanged, and with them the answer
\* to every booking request.
C19_ReadPathsSideEffectFree ==
  [][ ( \/ \E s \in SpotIds, now \in Times : GetNextAvailableTime(s, now)
        \/ \E c \in Clients, s \in SpotIds : LoadSpotDetails(c, s)
        \/ LoadParkingSpots
        \/ AdminLoadData )
      => /\ parking_spots' = parking_spots
         /\ bookings' = bookings
         /\ \A s \in SpotIds, st \in StartTimes, en \in EndTimes :
              createBooking(bookings', parking_spots', BookingRow(s, st, en, "pending", MinPin, 1))
                = createBooking(bookings, parking_spots, BookingRow(s, st, en, "pending", MinPin, 1)) ]_vars

\* the next available time was asked while a booking was active, the
\* pages hold what they read, and the booking is still active
C19_Witness ==
  /\ nextAvailableTime # NoTime
  /\ filteredSpots # {}
  /\ \E i \in 1..Len(bookings) :
       /\ bookings[i].status = "active"
       /\ bookings[i].endTime = nextAvailableTime
       /\ i \in 1..Len(adminBookings) /\ adminBookings[i] = "active"

\* ------------------------------------------------------------------ C20
\* C20: the list a listing or a search returns holds no inactive spot, and
\* deactivating a spot changes no booking.
C20_DeactivatedNotSearchable ==
  [][ /\ ( \/ LoadParkingSpots
           \/ \E matches \in SUBSET SpotIds : HandleSearch(matches) )
         => \A s \in filteredSpots' : parking_spots[s].isActive
      /\ \A s \in SpotIds :
           UpdateParkingSpot(s, [isActive |-> FALSE]) => bookings' = bookings ]_vars

\* an inactive spot with a pending booking is missing from the list just
\* loaded, which shows another spot
C20_Witness ==
  /\ filteredSpots # {}
  /\ \A s \in filteredSpots : parking_spots[s].isActive
  /\ \E s \in 1..Len(parking_spots) :
       /\ ~parking_spots[s].isActive
       /\ s \notin filteredSpots
       /\ \E i \in 1..Len(bookings) :
            bookings[i].spotId = s /\ bookings[i].status = "pending"

\* ------------------------------------------------------------------ C21
\* C21: for every spot, available_slots plus the number of its bookings
\* with status 'active' or 'pending' equals total_slots.
C21_CounterConsistency ==
  \A s \in 1..Len(parking_spots) :
    parking_spots[s].availableSlots
      + Cardinality({ i \in getBookingsBySpotId(bookings, s) : bookings[i].status \in NonTerminal })
    = parking_spots[s].totalSlots

\* ------------------------------------------------------------------ C22
\* C22: every spot of positive capacity has 0 <= availableSlots <=
\* totalSlots after every step: creation, a saved availability, an edit of
\* totalSlots.
C22_SlotCounterBounds ==
  [][ \A s \in 1..Len(parking_spots') :
        parking_spots'[s].totalSlots >= 1
        => /\ 0 <= parking_spots'[s].availableSlots
           /\ parking_spots'[s].availableSlots <= parking_spots'[s].totalSlots ]_vars

\* ------------------------------------------------------------------ C23
\* C23: every stored spot has totalSlots >= 1, and submitting the form
\* with a total of 0, a negative number or no number stores no spot.
C23_PositiveCapacity ==
  [][ /\ \A text \in NumberTexts :
           (HandleSubmit(text) /\ (parseInt(text) = NaN \/ parseInt(text) < 1))
           => parking_spots' = parking_spots
      /\ \A s \in 1..Len(parking_spots') :
           s \notin 1..Len(parking_spots) => parking_spots'[s].totalSlots >= 1 ]_vars

\* ------------------------------------------------------------------ C27
\* C27: after an edit of a spot's totalSlots to a positive number, when
\* the capacity held its bookings before, the peak occupancy of its pending and active bookings
\* is at most the totalSlots stored.
C27_CapacityEditsPreserveInvariant ==
  [][ \A s \in SpotIds, total \in 1..(MaxSlots + 1) :
        ( /\ s \in 1..Len(parking_spots)
          /\ \A t \in Times : occupancyAt(bookings, s, t) <= parking_spots[s].totalSlots
          /\ UpdateParkingSpot(s, [totalSlots |-> total]) )
        => \A t \in Times : occupancyAt(bookings', s, t) <= parking_spots'[s].totalSlots ]_vars

\* ------------------------------------------------------------------ C24
\* C24: every booking a step adds to the table is added with status
\* pending.
C24_InitialStatePending ==
  [][ \A i \in 1..Len(bookings') :
        i > Len(bookings) => bookings'[i].status = "pending" ]_vars

\* the booking created last is the second one of the table, it was just
\* confirmed and is pending
C24_Witness ==
  /\ result = "Booking Confirmed!"
  /\ Len(bookings) = 2
  /\ bookings[2].status = "pending"

\* ------------------------------------------------------------------ C25
\* C25: while time passes, every stored booking that is not cancelled is
\* eventually active (or already completed) once the clock has reached its
\* start, and eventually completed once the clock has reached its end,
\* without anybody checking it in or out.
C25_ClockDrivenProgress ==
  \A i \in BookingIds :
    /\ (i <= Len(bookings) /\ clock >= bookings[i].startTime)
         ~> (i <= Len(bookings) /\ bookings[i].status \in {"active", "completed", "cancelled"})
    /\ (i <= Len(bookings) /\ clock >= bookings[i].endTime)
         ~> (i <= Len(bookings) /\ bookings[i].status \in {"completed", "cancelled"})

\* ------------------------------------------------------------------ C26
\* C26: for every spot and instant t, the bookings counted as occupying
\* the spot at t are exactly its pending or active bookings whose range
\* [start, end) contains t: a pending one is counted like an active one,
\* a completed or cancelled one never, and their number is occupancyAt.
C26_OccupancyCountsPendingAndActive ==
  \A s \in 1..Len(parking_spots) : \A t \in Times :
    LET counted == getActiveBookings(bookings, t) \cap getBookingsBySpotId(bookings, s)
    IN /\ \A i \in getBookingsBySpotId(bookings, s) :
            i \in counted
            <=> /\ bookings[i].status \in NonTerminal
                /\ contains(bookings[i].startTime, bookings[i].endTime, t)
       /\ Cardinality(counted) = occupancyAt(bookings, s, t)

\* ------------------------------------------------------------------ C28
\* C28: typing in the PIN of a pending or active booking shows that booking
\* for confirmation, whatever other bookings the table holds.
C28_PinReachesItsBooking ==
  [][ \A pin \in Pins : \A i \in 1..Len(bookings) :
        ( /\ bookings[i].pin = pin
          /\ bookings[i].status \in NonTerminal
          /\ HandlePinSubmit(pin) )
        => /\ scanError' = ""
           /\ bookingDetails'.id = i ]_vars

\* ------------------------------------------------------------------ C29
\* C29: every stored booking has totalCost > 0, whatever start and end
\* were entered and whatever the spot's price type is.
C29_TotalCostPositive ==
  \A i \in 1..Len(bookings) : bookings[i].totalCost > 0

\* ------------------------------------------------------------------ C30
\* C30: at a protected location the page is rendered only when loading has
\* finished and a user is present, and at an owner-only location only when
\* that user is an owner; otherwise the spinner is rendered while loading,
\* a redirect to /login when there is no user, and a redirect to / when the
\* user is not an owner.
C30_RouteGuard ==
  /\ route.path \in DOMAIN CustomerRoutes =>
       route.element =
         IF auth.isLoading THEN Loading
         ELSE IF auth.user = NoUser THEN Navigate("/login")
         ELSE Element(CustomerRoutes[route.path])
  /\ route.path \in DOMAIN OwnerRoutes =>
       route.element =
         IF auth.isLoading THEN Loading
         ELSE IF auth.user = NoUser THEN Navigate("/login")
         ELSE IF auth.user # "owner" THEN Navigate("/")
         ELSE Element(OwnerRoutes[route.path])
  /\ \A path \in DOMAIN OwnerRoutes :
       route.element = Element(OwnerRoutes[path]) => ~auth.isLoading /\ auth.user = "owner"

\* a signed-in customer at an owner-only location is shown the redirect to /
C30_Witness ==
  /\ route.path \in DOMAIN OwnerRoutes
  /\ ~auth.isLoading
  /\ auth.user = "customer"
  /\ route.element = Navigate("/")
====
